---- MODULE Spec2Model ----
(***************************************************************************)
(* Orders API: HTTP handlers (handler/order.go) over the Redis repository  *)
(* (repository/order/redis.go).  The Redis server is the shared state: a   *)
(* string keyspace holding one JSON record per order under "order:<id>",   *)
(* and the set "orders" holding the keys.  Every request runs on its own   *)
(* goroutine; one Redis command, or one MULTI/EXEC transaction, is one     *)
(* atomic step, and a handler that issues several commands is several      *)
(* steps that interleave with the steps of the other requests.             *)
(*                                                                         *)
(* Replies of the go-redis client are modelled as the client produces      *)
(* them: a command queued on a TxPipeline carries no error before Exec,    *)
(* SETNX and DEL reply with an integer, and the BoolCmd of SET .. XX turns *)
(* the nil bulk reply into (false, no error).  Commands reach the server;  *)
(* the commit of a transaction may fail as a whole.                        *)
(***************************************************************************)
EXTENDS Integers, Sequences, FiniteSets, TLC

\* ------------------------------------------------------------------ bounds
MaxId == 2          \* order identifiers rand.Uint64() may draw: 1..MaxId
NumProcs == 2       \* requests in flight at the same time
MaxClock == 1       \* the wall clock runs over 0..MaxClock
NBuckets == 3       \* cursor positions of the set scan: 0..NBuckets-1
MaxTravId == 3      \* identifiers of the orders a paging client walks over

\* ---------------------------------------------------------------- constants
size == 50          \* page size List passes to FindAll

Ids == 1..MaxId
Procs == 1..NumProcs
Times == 0..MaxClock
Cursors == 0..(NBuckets - 1)

\* a nil *time.Time
Null == -1

\* the body a client posts to Create together with the identifier
\* rand.Uint64() draws for it: no line items for odd identifiers, one line
\* item for even ones
BodyOf(id) ==
    IF id % 2 = 1
    THEN [CustomerID |-> id, LineItems |-> <<>>]
    ELSE [CustomerID |-> id, LineItems |-> <<[ItemID |-> 1, Quantity |-> 2, Price |-> 500]>>]

\* the values of the "status" field of an update request
Statuses == {"shipped", "completed", "cancelled"}

\* ------------------------------------------------------------------ errors
NoErr == "nil"
ErrNotExist == "order does not exist"
ErrExec == "failed to exec"

\* ------------------------------------------------------------- order entity
\* model.Order{}: the zero value
ZeroOrder ==
    [OrderID |-> 0, CustomerID |-> 0, LineItems |-> <<>>,
     CreatedAt |-> Null, ShippedAt |-> Null, CompletedAt |-> Null]

\* encoding/json of a time.Time held by value: a nil becomes the zero instant
MarshalTimeByValue(t) == IF t = Null THEN <<0>> ELSE <<t>>

\* encoding/json of a *time.Time: null for nil, the instant otherwise
MarshalTime(t) == IF t = Null THEN <<>> ELSE <<t>>

UnmarshalTime(j) == IF j = <<>> THEN Null ELSE j[1]

\* json.Marshal(order): the field-named record, keyed by the json tags
Marshal(o) ==
    [order_id |-> o.OrderID,
     customer_id |-> o.CustomerID,
     line_items |-> o.LineItems,
     created_at |-> MarshalTime(o.CreatedAt),
     shipped_at |-> MarshalTime(o.ShippedAt),
     completed_at |-> MarshalTime(o.CompletedAt)]

\* json.Unmarshal(value, &order)
Unmarshal(j) ==
    [OrderID |-> j.order_id,
     CustomerID |-> j.customer_id,
     LineItems |-> j.line_items,
     CreatedAt |-> UnmarshalTime(j.created_at),
     ShippedAt |-> UnmarshalTime(j.shipped_at),
     CompletedAt |-> UnmarshalTime(j.completed_at)]

\* fmt.Sprintf("order:%d", id)
orderIDKey(id) == <<"order", id>>

\* the identifier a key was derived from
KeyID(k) == k[2]

\* ------------------------------------------------------------ Redis server
\* SETNX key value: writes only when the key is absent
SetNX(kvs, k, v) ==
    IF k \in DOMAIN kvs THEN kvs
    ELSE [x \in DOMAIN kvs \cup {k} |-> IF x = k THEN v ELSE kvs[x]]

\* SET key value without XX: writes whether or not the key is present
SetAlways(kvs, k, v) ==
    [x \in DOMAIN kvs \cup {k} |-> IF x = k THEN v ELSE kvs[x]]

\* SET key value NX in the place of XX: never overwrites a record
SetXXKeepsOld(kvs, k, v) == kvs

\* SET key value XX: writes only when the key is present
SetXX(kvs, k, v) ==
    IF k \in DOMAIN kvs THEN [kvs EXCEPT ![k] = v] ELSE kvs

\* DEL key
Del(kvs, k) == [x \in DOMAIN kvs \ {k} |-> kvs[x]]

\* the position of a member in the scan order of the set
Bucket(k) == KeyID(k) % NBuckets

\* the members of a set of keys as a list, in scan order
RECURSIVE KeyList(_)
KeyList(S) ==
    IF S = {} THEN <<>>
    ELSE LET k == CHOOSE x \in S : \A y \in S : KeyID(x) <= KeyID(y)
         IN <<k>> \o KeyList(S \ {k})

\* SSCAN orders cursor MATCH * COUNT n: the members met between the cursor
\* and the position stop the server chose, and the cursor to continue from
\* (0 when the scan has wrapped around)
SScan(idx, cursor, stop) ==
    [keys |-> KeyList({k \in idx : Bucket(k) >= cursor /\ Bucket(k) < stop}),
     cursor |-> IF stop >= NBuckets THEN 0 ELSE stop]

\* the positions SSCAN may stop at, from a cursor
Stops(cursor) == {s \in 1..NBuckets : s > cursor /\ s - cursor <= size}

\* MGET keys: the values aligned to the keys, nil (<<>>) for an absent key
MGet(kvs, keys) ==
    [i \in 1..Len(keys) |-> IF keys[i] \in DOMAIN kvs THEN <<kvs[keys[i]]>> ELSE <<>>]

\* ------------------------------------------------------------- repository
\* Insert on a plain Pipeline: a failed Exec has applied the SETNX alone
InsertNoTx(kvs, idx, order, commit) ==
    IF ~commit
    THEN [kv |-> SetNX(kvs, orderIDKey(order.OrderID), Marshal(order)),
          orders |-> idx, err |-> ErrExec]
    ELSE [kv |-> SetNX(kvs, orderIDKey(order.OrderID), Marshal(order)),
          orders |-> idx \cup {orderIDKey(order.OrderID)},
          err |-> NoErr]

\* RedisRepo.Insert: SETNX and SADD queued on a TxPipeline, then Exec
Insert(kvs, idx, order, commit) ==
    IF ~commit THEN [kv |-> kvs, orders |-> idx, err |-> ErrExec]
    ELSE [kv |-> SetNX(kvs, orderIDKey(order.OrderID), Marshal(order)),
          orders |-> idx \cup {orderIDKey(order.OrderID)},
          err |-> NoErr]

\* RedisRepo.FindByID
FindByID(kvs, id) ==
    IF orderIDKey(id) \notin DOMAIN kvs
    THEN [order |-> ZeroOrder, err |-> ErrNotExist]
    ELSE [order |-> Unmarshal(kvs[orderIDKey(id)]), err |-> NoErr]

\* DeleteByID without the SREM: the key stays in the set
DeleteByIDNoSRem(kvs, idx, id, commit) ==
    IF ~commit THEN [kv |-> kvs, orders |-> idx, err |-> ErrExec]
    ELSE [kv |-> Del(kvs, orderIDKey(id)), orders |-> idx, err |-> NoErr]

\* RedisRepo.DeleteByID: DEL and SREM queued on a TxPipeline, then Exec
DeleteByID(kvs, idx, id, commit) ==
    IF ~commit THEN [kv |-> kvs, orders |-> idx, err |-> ErrExec]
    ELSE [kv |-> Del(kvs, orderIDKey(id)),
          orders |-> idx \ {orderIDKey(id)},
          err |-> NoErr]

\* RedisRepo.Update: SET .. XX, whose BoolCmd reports no error either way
Update(kvs, order) ==
    [kv |-> SetXX(kvs, orderIDKey(order.OrderID), Marshal(order)),
     err |-> NoErr]

\* RedisRepo.FindAll, up to the scan: the empty result when no key came back
FindAllScan(idx, offset, stop) ==
    LET res == SScan(idx, offset, stop)
    IN [keys |-> res.keys, scanned |-> res.cursor,
        done |-> Len(res.keys) = 0,
        orders |-> <<>>, cursor |-> 0]

\* RedisRepo.FindAll, from the multi-get on: x.(string) panics on a nil value
FindAllMGet(kvs, keys, cursor) ==
    LET xs == MGet(kvs, keys)
    IN IF \E i \in 1..Len(xs) : xs[i] = <<>>
       THEN [panic |-> TRUE, orders |-> <<>>, cursor |-> 0]
       ELSE [panic |-> FALSE,
             orders |-> [i \in 1..Len(xs) |-> Unmarshal(xs[i][1])],
             cursor |-> cursor]

\* RedisRepo.FindAll as one call, nothing else running in between
FindAll(kvs, idx, offset, stop) ==
    LET s == FindAllScan(idx, offset, stop)
    IN IF s.done THEN [panic |-> FALSE, orders |-> s.orders, cursor |-> s.cursor,
                       scanned |-> s.scanned]
       ELSE LET m == FindAllMGet(kvs, s.keys, s.scanned)
            IN [panic |-> m.panic, orders |-> m.orders, cursor |-> m.cursor,
                scanned |-> s.scanned]

\* ---------------------------------------------------------------- handlers
\* the switch without the ShippedAt == nil test of the completed case
TransitionOfSkipShipped(theOrder, status, now) ==
    CASE status = "shipped" ->
           IF theOrder.ShippedAt # Null
           THEN [ok |-> FALSE, order |-> theOrder]
           ELSE [ok |-> TRUE, order |-> [theOrder EXCEPT !.ShippedAt = now]]
      [] status = "completed" ->
           IF theOrder.CompletedAt # Null
           THEN [ok |-> FALSE, order |-> theOrder]
           ELSE [ok |-> TRUE, order |-> [theOrder EXCEPT !.CompletedAt = now]]
      [] OTHER -> [ok |-> FALSE, order |-> theOrder]

\* the switch without the ShippedAt != nil test of the shipped case
TransitionOfReship(theOrder, status, now) ==
    CASE status = "shipped" ->
           [ok |-> TRUE, order |-> [theOrder EXCEPT !.ShippedAt = now]]
      [] status = "completed" ->
           IF theOrder.CompletedAt # Null \/ theOrder.ShippedAt = Null
           THEN [ok |-> FALSE, order |-> theOrder]
           ELSE [ok |-> TRUE, order |-> [theOrder EXCEPT !.CompletedAt = now]]
      [] OTHER -> [ok |-> FALSE, order |-> theOrder]

\* the switch with a default case that falls through to the write
TransitionOfDefaultAccepts(theOrder, status, now) ==
    CASE status = "shipped" ->
           IF theOrder.ShippedAt # Null
           THEN [ok |-> FALSE, order |-> theOrder]
           ELSE [ok |-> TRUE, order |-> [theOrder EXCEPT !.ShippedAt = now]]
      [] status = "completed" ->
           IF theOrder.CompletedAt # Null \/ theOrder.ShippedAt = Null
           THEN [ok |-> FALSE, order |-> theOrder]
           ELSE [ok |-> TRUE, order |-> [theOrder EXCEPT !.CompletedAt = now]]
      [] OTHER -> [ok |-> TRUE, order |-> theOrder]

\* Order.UpdateByID, the switch on body.Status applied to the order read
TransitionOf(theOrder, status, now) ==
    CASE status = "shipped" ->
           IF theOrder.ShippedAt # Null
           THEN [ok |-> FALSE, order |-> theOrder]
           ELSE [ok |-> TRUE, order |-> [theOrder EXCEPT !.ShippedAt = now]]
      [] status = "completed" ->
           IF theOrder.CompletedAt # Null \/ theOrder.ShippedAt = Null
           THEN [ok |-> FALSE, order |-> theOrder]
           ELSE [ok |-> TRUE, order |-> [theOrder EXCEPT !.CompletedAt = now]]
      [] OTHER -> [ok |-> FALSE, order |-> theOrder]

\* Order.Create, the order built from the decoded body
NewOrder(id, body, now) ==
    [OrderID |-> id, CustomerID |-> body.CustomerID, LineItems |-> body.LineItems,
     CreatedAt |-> now, ShippedAt |-> Null, CompletedAt |-> Null]

\* the status code a handler answers for a repository error
StatusOf(err, success) ==
    IF err = ErrNotExist THEN 404
    ELSE IF err # NoErr THEN 500
    ELSE success

\* -------------------------------------------------------------------- state
VARIABLES
    kv,         \* Redis strings: key -> JSON record, for the keys that exist
    orders,     \* the Redis set "orders"
    clock,      \* time.Now()
    req,        \* per request slot: where its handler stands, and its locals
    ret,        \* the repository call the latest step made and what it returned
    trav,       \* a client paging through List: cursor, orders seen, finished
    app         \* the process: where main and the server goroutine are, the client

vars == <<kv, orders, clock, req, ret, trav, app>>

\* a request slot with no request in it
Idle == [pc |-> "idle", status |-> "", theOrder |-> ZeroOrder, keys |-> <<>>, cursor |-> 0]

\* a step that returned from no repository call
NoRet ==
    [op |-> "none", id |-> 0, had |-> FALSE, err |-> NoErr, order |-> ZeroOrder,
     orders |-> <<>>, cursor |-> 0, scanned |-> 0, code |-> 0]

\* the client of List before its first call
TravStart == [cursor |-> 0, seen |-> <<>>, done |-> FALSE]

\* the process as application.New leaves it: the client created and never
\* closed, Start not yet called, no goroutine, the context not cancelled
NewApp ==
    [main |-> "ping", srv |-> "none", ch |-> <<>>, ctxDone |-> FALSE,
     deferred |-> FALSE, closes |-> 0, err |-> NoErr]

\* the process while Start waits in its select and the server accepts requests
Serving == [NewApp EXCEPT !.main = "select", !.srv = "serving", !.deferred = TRUE]

\* the process serving, before the first request
Init ==
    /\ kv = <<>>
    /\ orders = {}
    /\ clock = 0
    /\ req = [p \in Procs |-> Idle]
    /\ ret = NoRet
    /\ trav = TravStart
    /\ app = Serving

\* the wall clock advances
Tick ==
    /\ clock < MaxClock
    /\ clock' = clock + 1
    /\ ret' = NoRet
    /\ UNCHANGED <<kv, orders, req, trav, app>>

\* Order.Create.  The handler touches the store once, in Insert; time.Now()
\* was read before that, at any moment up to the commit.
Create(id, now, commit) ==
    /\ now <= clock
    /\ LET o == NewOrder(id, BodyOf(id), now)
           r == Insert(kv, orders, o, commit)
       IN /\ kv' = r.kv
          /\ orders' = r.orders
          /\ ret' = [NoRet EXCEPT !.op = "Insert", !.id = id,
                                  !.had = orderIDKey(id) \in DOMAIN kv,
                                  !.err = r.err, !.code = StatusOf(r.err, 201)]
    /\ UNCHANGED <<clock, req, trav, app>>

\* Order.GetByID
GetByID(id) ==
    /\ LET r == FindByID(kv, id)
       IN ret' = [NoRet EXCEPT !.op = "FindByID", !.id = id,
                               !.had = orderIDKey(id) \in DOMAIN kv,
                               !.err = r.err, !.order = r.order,
                               !.code = StatusOf(r.err, 200)]
    /\ UNCHANGED <<kv, orders, clock, req, trav, app>>

\* Order.UpdateByID up to the verdict of the switch.  The verdict depends on
\* the order read and on the status asked for, not on the clock, so a request
\* the switch rejects is answered in the step that read the order.
UpdateFind(p, id, status) ==
    /\ req[p].pc = "idle"
    /\ LET r == FindByID(kv, id)
           t == TransitionOf(r.order, status, clock)
       IN /\ ret' = [NoRet EXCEPT !.op = "FindByID", !.id = id,
                                  !.had = orderIDKey(id) \in DOMAIN kv,
                                  !.err = r.err, !.order = r.order,
                                  !.code = IF r.err # NoErr THEN StatusOf(r.err, 0)
                                           ELSE IF ~t.ok THEN 400 ELSE 0]
          /\ req' = IF r.err # NoErr \/ ~t.ok THEN req
                    ELSE [req EXCEPT ![p] = [Idle EXCEPT !.pc = "found",
                                                         !.status = status,
                                                         !.theOrder = r.order]]
    /\ UNCHANGED <<kv, orders, clock, trav, app>>

\* Order.UpdateByID: the accepted branch of the switch stamps the order with
\* time.Now(), read at some moment between FindByID and Update
UpdateTransition(p) ==
    /\ req[p].pc = "found"
    /\ req' = [req EXCEPT ![p].pc = "update",
                          ![p].theOrder = TransitionOf(req[p].theOrder, req[p].status, clock).order]
    /\ ret' = NoRet
    /\ UNCHANGED <<kv, orders, clock, trav, app>>

\* Order.UpdateByID from the call of Update on
UpdateWrite(p) ==
    /\ req[p].pc = "update"
    /\ LET o == req[p].theOrder
           r == Update(kv, o)
       IN /\ kv' = r.kv
          /\ ret' = [NoRet EXCEPT !.op = "Update", !.id = o.OrderID,
                                  !.had = orderIDKey(o.OrderID) \in DOMAIN kv,
                                  !.err = r.err, !.code = StatusOf(r.err, 200)]
    /\ req' = [req EXCEPT ![p] = Idle]
    /\ UNCHANGED <<orders, clock, trav, app>>

\* Order.DeleteByID
Delete(id, commit) ==
    /\ LET r == DeleteByID(kv, orders, id, commit)
           had == orderIDKey(id) \in DOMAIN kv
       IN /\ kv' = r.kv
          /\ orders' = r.orders
          /\ ret' = [NoRet EXCEPT !.op = "DeleteByID", !.id = id, !.had = had,
                                  !.err = r.err, !.code = StatusOf(r.err, 200)]
    /\ UNCHANGED <<clock, req, trav, app>>

\* Order.List up to the return of the scan inside FindAll
ListScan(p, cursor, stop) ==
    /\ req[p].pc = "idle"
    /\ LET s == FindAllScan(orders, cursor, stop)
       IN IF s.done
          THEN /\ ret' = [NoRet EXCEPT !.op = "FindAll", !.orders = s.orders,
                                       !.cursor = s.cursor, !.scanned = s.scanned,
                                       !.code = 200]
               /\ req' = req
          ELSE /\ ret' = NoRet
               /\ req' = [req EXCEPT ![p] = [Idle EXCEPT !.pc = "mget",
                                                         !.keys = s.keys,
                                                         !.cursor = s.scanned]]
    /\ UNCHANGED <<kv, orders, clock, trav, app>>

\* Order.List from the multi-get inside FindAll on
ListMGet(p) ==
    /\ req[p].pc = "mget"
    /\ LET m == FindAllMGet(kv, req[p].keys, req[p].cursor)
       IN ret' = [NoRet EXCEPT !.op = "FindAll",
                               !.err = IF m.panic THEN "panic" ELSE NoErr,
                               !.orders = m.orders, !.cursor = m.cursor,
                               !.scanned = req[p].cursor,
                               !.code = IF m.panic THEN 0 ELSE 200]
    /\ req' = [req EXCEPT ![p] = Idle]
    /\ UNCHANGED <<kv, orders, clock, trav, app>>

Next ==
    \/ Tick
    \/ \E id \in Ids, now \in Times, commit \in BOOLEAN : Create(id, now, commit)
    \/ \E id \in Ids : GetByID(id)
    \/ \E p \in Procs, id \in Ids, status \in Statuses : UpdateFind(p, id, status)
    \/ \E p \in Procs : UpdateTransition(p)
    \/ \E p \in Procs : UpdateWrite(p)
    \/ \E id \in Ids, commit \in BOOLEAN : Delete(id, commit)
    \/ \E p \in Procs, cursor \in Cursors : \E stop \in Stops(cursor) : ListScan(p, cursor, stop)
    \/ \E p \in Procs : ListMGet(p)

Spec == Init /\ [][Next]_vars

\* ------------------------------------------------ one request after another
\* no request is between two of its steps
Quiet == \A p \in Procs : req[p].pc = "idle"

\* the same handlers, each request starting after the previous one answered
NextSeq ==
    \/ Tick
    \/ Quiet /\ \E id \in Ids, now \in Times, commit \in BOOLEAN : Create(id, now, commit)
    \/ Quiet /\ \E id \in Ids : GetByID(id)
    \/ Quiet /\ \E id \in Ids, status \in Statuses : UpdateFind(1, id, status)
    \/ UpdateTransition(1)
    \/ UpdateWrite(1)
    \/ Quiet /\ \E id \in Ids, commit \in BOOLEAN : Delete(id, commit)
    \/ Quiet /\ \E cursor \in Cursors : \E stop \in Stops(cursor) : ListScan(1, cursor, stop)
    \/ ListMGet(1)

SpecSeq == Init /\ [][NextSeq]_vars

\* ------------------------------------------------- a client paging with List
TravIds == 1..MaxTravId

\* an order as the handlers leave it after n accepted status updates
OrderAfter(id, n) ==
    LET created == NewOrder(id, BodyOf(id), 0)
        shipped == TransitionOf(created, "shipped", 0).order
        completed == TransitionOf(shipped, "completed", MaxClock).order
    IN CASE n = 0 -> created
         [] n = 1 -> shipped
         [] OTHER -> completed

\* a store some requests have filled, and nobody changing it any more
InitTraversal ==
    /\ \E S \in SUBSET TravIds : \E n \in [TravIds -> 0..2] :
          kv = [k \in {orderIDKey(i) : i \in S} |-> Marshal(OrderAfter(KeyID(k), n[KeyID(k)]))]
    /\ orders = DOMAIN kv
    /\ clock = MaxClock
    /\ req = [p \in Procs |-> Idle]
    /\ ret = NoRet
    /\ trav = TravStart
    /\ app = Serving

\* the identifiers of a list of orders
OrderIDs(os) == [i \in 1..Len(os) |-> os[i].OrderID]

\* one GET /orders?cursor=..: Order.List calls FindAll with the cursor of the
\* previous answer; an answer without "next" (cursor 0) ends the walk
TraverseCall(stop) ==
    /\ ~trav.done
    /\ stop \in Stops(trav.cursor)
    /\ LET r == FindAll(kv, orders, trav.cursor, stop)
       IN /\ trav' = [cursor |-> r.cursor,
                      seen |-> trav.seen \o OrderIDs(r.orders),
                      done |-> r.cursor = 0]
          /\ ret' = [NoRet EXCEPT !.op = "FindAll",
                                  !.err = IF r.panic THEN "panic" ELSE NoErr,
                                  !.orders = r.orders, !.cursor = r.cursor,
                                  !.scanned = r.scanned,
                                  !.code = IF r.panic THEN 0 ELSE 200]
    /\ UNCHANGED <<kv, orders, clock, req, app>>

NextTraversal == \E stop \in 1..NBuckets : TraverseCall(stop)

SpecTraversal == InitTraversal /\ [][NextTraversal]_vars

\* ------------------------------------------------- the life of the process
\* the errors Start returns
ErrPing == "failed to connect to redis"
ErrServer == "failed to start server"
ErrShutdown == "context deadline exceeded"

\* a return of Start: the deferred functions registered so far run, and the
\* only one that touches the client is the a.rdb.Close() deferred after the ping
Return(a, err) ==
    [a EXCEPT !.main = "returned",
              !.err = err,
              !.closes = IF a.deferred THEN @ + 1 ELSE @]

\* main before signal.NotifyContext and Start
InitApp ==
    /\ kv = <<>>
    /\ orders = {}
    /\ clock = 0
    /\ req = [p \in Procs |-> Idle]
    /\ ret = NoRet
    /\ trav = TravStart
    /\ app = NewApp

\* os.Interrupt arrives: signal.NotifyContext cancels the context
Interrupt ==
    /\ app.main # "returned"
    /\ ~app.ctxDone
    /\ app' = [app EXCEPT !.ctxDone = TRUE]
    /\ UNCHANGED <<kv, orders, clock, req, ret, trav>>

\* a.rdb.Ping(ctx): on an error Start returns at once, before the defer of
\* Close is reached; a cancelled context makes the ping fail
Ping(ok) ==
    /\ app.main = "ping"
    /\ ok => ~app.ctxDone
    /\ app' = IF ok
              THEN [app EXCEPT !.main = "go", !.deferred = TRUE]
              ELSE Return(app, ErrPing)
    /\ UNCHANGED <<kv, orders, clock, req, ret, trav>>

\* go func() { err = server.ListenAndServe() ... }(), then main is at the select
Go ==
    /\ app.main = "go"
    /\ app' = [app EXCEPT !.main = "select", !.srv = "spawned"]
    /\ UNCHANGED <<kv, orders, clock, req, ret, trav>>

\* the goroutine: ListenAndServe binds the port and serves, or returns an
\* error that the goroutine sends on ch
Listen(ok) ==
    /\ app.main # "returned"
    /\ app.srv = "spawned"
    /\ app' = IF ok
              THEN [app EXCEPT !.srv = "serving"]
              ELSE [app EXCEPT !.srv = "done", !.ch = <<ErrServer>>]
    /\ UNCHANGED <<kv, orders, clock, req, ret, trav>>

\* the goroutine: Serve returns with an error while requests were served
ServeFails ==
    /\ app.main # "returned"
    /\ app.srv = "serving"
    /\ app' = [app EXCEPT !.srv = "done", !.ch = <<ErrServer>>]
    /\ UNCHANGED <<kv, orders, clock, req, ret, trav>>

\* select, case err = <-ch: return err
SelectCh ==
    /\ app.main = "select"
    /\ app.ch # <<>>
    /\ app' = [Return(app, app.ch[1]) EXCEPT !.ch = <<>>]
    /\ UNCHANGED <<kv, orders, clock, req, ret, trav>>

\* select, case <-ctx.Done(): main goes on to server.Shutdown
SelectDone ==
    /\ app.main = "select"
    /\ app.ctxDone
    /\ app' = [app EXCEPT !.main = "shutdown"]
    /\ UNCHANGED <<kv, orders, clock, req, ret, trav>>

\* return server.Shutdown(timeout): nil, or the error of the ten-second
\* context when requests are still open
Shutdown(graceful) ==
    /\ app.main = "shutdown"
    /\ app' = [Return(app, IF graceful THEN NoErr ELSE ErrShutdown)
                  EXCEPT !.srv = IF @ = "serving" THEN "done" ELSE @]
    /\ UNCHANGED <<kv, orders, clock, req, ret, trav>>

\* the server handles requests, one after another, while it is serving
Serve ==
    /\ app.main # "returned"
    /\ app.srv = "serving"
    /\ NextSeq

NextApp ==
    \/ Interrupt
    \/ \E ok \in BOOLEAN : Ping(ok)
    \/ Go
    \/ \E ok \in BOOLEAN : Listen(ok)
    \/ ServeFails
    \/ SelectCh
    \/ SelectDone
    \/ \E graceful \in BOOLEAN : Shutdown(graceful)
    \/ Serve

SpecApp == InitApp /\ [][NextApp]_vars

\* ================================================================== claims
\* the stored record of an identifier, decoded
Stored(id) == Unmarshal(kv[orderIDKey(id)])

\* the identifiers that have a stored record
StoredIds == {KeyID(k) : k \in DOMAIN kv}

\* C1: in every reachable state the members of the set "orders" are exactly
\* the keys order:<id> that have a stored record.
C1_IndexEqualsKeys == orders = DOMAIN kv

\* C1 witness: an Update has met a key deleted under it while another order
\* is still stored and indexed.
C1_Witness ==
    /\ ret.op = "Update"
    /\ ~ret.had
    /\ orders # {}

\* the error the specification names for a duplicate; the repository
\* declares no such value
ErrAlreadyExists == "order already exists"

\* C2: an Insert whose identifier already has a stored record returns the
\* AlreadyExists error, and the stored records are the same after the call.
\* (A commit that fails is left aside: it is the transaction failure the claim
\* tells the duplicate error apart from.)
C2_DuplicateInsertFails ==
    [][(ret'.op = "Insert" /\ ret'.had /\ ret'.err # ErrExec)
          => (ret'.err = ErrAlreadyExists /\ kv' = kv)]_vars

\* C3: a DeleteByID whose identifier has no stored record returns ErrNotExist,
\* and the primary store and the index set are the same after the call.
C3_DeleteAbsentNotFound ==
    [][(ret'.op = "DeleteByID" /\ ~ret'.had /\ ret'.err # ErrExec)
          => (ret'.err = ErrNotExist /\ kv' = kv /\ orders' = orders)]_vars

\* C4: an Update whose key does not exist returns ErrNotExist and writes
\* nothing; it never returns success.
C4_UpdateAbsentNotFound ==
    [][(ret'.op = "Update" /\ ~ret'.had)
          => (ret'.err = ErrNotExist /\ kv' = kv /\ orders' = orders)]_vars

\* C5: when a walk that started at cursor 0 and followed every returned
\* cursor has been answered cursor 0, it has returned every stored order
\* exactly once.
C5_TraversalVisitsAllOnce ==
    trav.done =>
        /\ \A k \in orders : Cardinality({i \in 1..Len(trav.seen) : trav.seen[i] = KeyID(k)}) = 1
        /\ Len(trav.seen) = Cardinality(orders)

\* C6: FindAll returns the cursor the set scan returned: cursor 0 only when
\* the scan returned 0, and an empty page carries the scan's non-zero cursor.
C6_CursorIsScanCursor ==
    (ret.op = "FindAll" /\ ret.err = NoErr) => ret.cursor = ret.scanned

\* C7: a shipped or completed timestamp present in the stored record of an
\* order is present in every later stored state of that order, as long as the
\* order is not deleted.
C7_TimestampsNeverUnset ==
    [][\A id \in Ids :
          (orderIDKey(id) \in DOMAIN kv /\ orderIDKey(id) \in DOMAIN kv')
             => /\ kv[orderIDKey(id)].shipped_at # <<>> => kv'[orderIDKey(id)].shipped_at # <<>>
                /\ kv[orderIDKey(id)].completed_at # <<>> => kv'[orderIDKey(id)].completed_at # <<>>]_vars

\* C8: in every reachable state every stored order that has a completed
\* timestamp has a shipped timestamp.
C8_CompletedImpliesShipped ==
    \A id \in StoredIds : Stored(id).CompletedAt # Null => Stored(id).ShippedAt # Null

\* C8 witness: an Update has just stored an order with a completed timestamp.
C8_Witness ==
    /\ ret.op = "Update"
    /\ ret.had
    /\ Stored(ret.id).CompletedAt # Null

\* C9: in every reachable state every stored order has
\* created <= shipped <= completed over the timestamps that are present.
C9_TimestampsOrdered ==
    \A id \in StoredIds :
        LET o == Stored(id)
        IN /\ o.CreatedAt # Null
           /\ o.ShippedAt # Null => o.CreatedAt <= o.ShippedAt
           /\ o.CompletedAt # Null => o.CreatedAt <= o.CompletedAt
           /\ (o.ShippedAt # Null /\ o.CompletedAt # Null) => o.ShippedAt <= o.CompletedAt

\* C9 witness: a stored order was shipped after its creation and completed,
\* while a second order is stored too.
C9_Witness ==
    /\ Cardinality(StoredIds) = 2
    /\ \E id \in StoredIds :
          /\ Stored(id).ShippedAt # Null
          /\ Stored(id).CompletedAt # Null
          /\ Stored(id).CreatedAt < Stored(id).ShippedAt

\* C10: a DeleteByID that succeeds leaves the identifier without a record and
\* without an index entry; an identifier in that condition stays in it through
\* every step but an Insert of it; FindByID of an identifier without a record
\* returns ErrNotExist; and FindAll returns no order that has no record.
C10_DeletedStaysAbsent ==
    [][/\ (ret'.op = "DeleteByID" /\ ret'.err = NoErr)
            => (orderIDKey(ret'.id) \notin DOMAIN kv' /\ orderIDKey(ret'.id) \notin orders')
       /\ \A id \in Ids :
            (/\ orderIDKey(id) \notin DOMAIN kv
             /\ orderIDKey(id) \notin orders
             /\ ~(ret'.op = "Insert" /\ ret'.id = id))
            => (orderIDKey(id) \notin DOMAIN kv' /\ orderIDKey(id) \notin orders')
       /\ (ret'.op = "FindByID" /\ orderIDKey(ret'.id) \notin DOMAIN kv')
            => ret'.err = ErrNotExist
       /\ (ret'.op = "FindAll")
            => \A i \in 1..Len(ret'.orders) : orderIDKey(ret'.orders[i].OrderID) \in DOMAIN kv']_vars

\* C10 witness: a DeleteByID has succeeded on an identifier that had a record.
C10_Witness ==
    /\ ret.op = "DeleteByID"
    /\ ret.had
    /\ ret.err = NoErr
    /\ orderIDKey(ret.id) \notin DOMAIN kv

\* C11: an Insert that commits for an identifier without a record is followed
\* by a FindByID that returns the inserted order, equal in identifier,
\* customer, line items and the three timestamps; the answer stays the same
\* through every step that is no Update and no DeleteByID of that identifier.
C11_InsertThenFind ==
    [][/\ (ret'.op = "Insert" /\ ~ret'.had)
            => \A now \in Times :
                  Create(ret'.id, now, TRUE)
                     => FindByID(kv', ret'.id)
                           = [order |-> NewOrder(ret'.id, BodyOf(ret'.id), now), err |-> NoErr]
       /\ kv' # kv
            => \A id \in StoredIds :
                  ~(ret'.op \in {"Update", "DeleteByID"} /\ ret'.id = id)
                     => FindByID(kv', id) = FindByID(kv, id)
       /\ ret'.op = "FindByID"
               => [order |-> ret'.order, err |-> ret'.err] = FindByID(kv', ret'.id)]_vars

\* C11 witness: after the clock moved on, FindByID has returned order 2 as
\* Create built it at time 0, line item included.
C11_Witness ==
    /\ ret.op = "FindByID"
    /\ ret.err = NoErr
    /\ clock > 0
    /\ ret.order = NewOrder(2, BodyOf(2), 0)
    /\ ret.order.LineItems # <<>>

\* C12: with one request after another, a shipped request on a stored order
\* without a shipped timestamp is accepted, and its write stores a shipped
\* timestamp >= the creation timestamp with no completed timestamp; a shipped
\* request on an order whose shipped timestamp is set is answered 400.
C12_ShippedOnce ==
    [][\A id \in Ids :
         /\ (UpdateFind(1, id, "shipped") /\ orderIDKey(id) \in DOMAIN kv)
               => IF Stored(id).ShippedAt = Null
                  THEN req'[1].pc = "found" /\ ret'.code = 0
                  ELSE req'[1].pc = "idle" /\ ret'.code = 400
         /\ (UpdateWrite(1) /\ req[1].status = "shipped" /\ req[1].theOrder.OrderID = id)
               => /\ ret'.code = 200
                  /\ orderIDKey(id) \in DOMAIN kv'
                  /\ kv'[orderIDKey(id)].shipped_at # <<>>
                  /\ kv'[orderIDKey(id)].shipped_at[1] >= kv'[orderIDKey(id)].created_at[1]
                  /\ kv'[orderIDKey(id)].completed_at = <<>>]_vars

\* C12 witness: a shipped request has been answered 400 on an order that a
\* previous request shipped after its creation.
C12_Witness ==
    /\ ret.op = "FindByID"
    /\ ret.code = 400
    /\ ret.order.ShippedAt # Null
    /\ ret.order.CompletedAt = Null
    /\ ret.order.CreatedAt < ret.order.ShippedAt

\* C13: with one request after another, a completed request is accepted
\* exactly when the stored order has a shipped and no completed timestamp, and
\* its write stores a completed timestamp >= the shipped timestamp; before
\* shipping and after completion it is answered 400.
C13_CompletedAfterShipped ==
    [][\A id \in Ids :
         /\ (UpdateFind(1, id, "completed") /\ orderIDKey(id) \in DOMAIN kv)
               => IF Stored(id).ShippedAt # Null /\ Stored(id).CompletedAt = Null
                  THEN req'[1].pc = "found" /\ ret'.code = 0
                  ELSE req'[1].pc = "idle" /\ ret'.code = 400
         /\ (UpdateWrite(1) /\ req[1].status = "completed" /\ req[1].theOrder.OrderID = id)
               => /\ ret'.code = 200
                  /\ orderIDKey(id) \in DOMAIN kv
                  /\ kv[orderIDKey(id)].shipped_at # <<>>
                  /\ kv[orderIDKey(id)].completed_at = <<>>
                  /\ kv'[orderIDKey(id)].shipped_at = kv[orderIDKey(id)].shipped_at
                  /\ kv'[orderIDKey(id)].completed_at # <<>>
                  /\ kv'[orderIDKey(id)].completed_at[1] >= kv'[orderIDKey(id)].shipped_at[1]]_vars

\* C13 witness: a completed request has just stored a completed timestamp
\* later than the shipped one, with no other request in flight.
C13_Witness ==
    /\ ret.op = "Update"
    /\ ret.had
    /\ Quiet
    /\ Stored(ret.id).CompletedAt # Null
    /\ Stored(ret.id).ShippedAt < Stored(ret.id).CompletedAt

\* the requests the switch answers 400: already shipped, not yet
\* shipped, already completed, or a status that is neither
Rejected(o, status) ==
    \/ status = "shipped" /\ o.ShippedAt # Null
    \/ status = "completed" /\ (o.ShippedAt = Null \/ o.CompletedAt # Null)
    \/ status \notin {"shipped", "completed"}

\* C14: a status-update request that is rejected is answered 400 in the step
\* that read the order and goes no further: it leaves no call of Update
\* pending, and the primary store and the index set are unchanged.
C14_RejectedWritesNothing ==
    [][(ret'.op = "FindByID" /\ orderIDKey(ret'.id) \in DOMAIN kv)
          => \A p \in Procs, status \in Statuses :
                (UpdateFind(p, ret'.id, status) /\ Rejected(Stored(ret'.id), status))
                   => /\ ret'.code = 400
                      /\ req' = req
                      /\ kv' = kv
                      /\ orders' = orders]_vars

\* C14 witness: a request has been answered 400 on a completed order while
\* the other order is stored too.
C14_Witness ==
    /\ ret.op = "FindByID"
    /\ ret.code = 400
    /\ ret.order.CompletedAt # Null
    /\ Cardinality(StoredIds) = 2

\* C15: an Insert or DeleteByID whose transaction fails to commit returns an
\* error and leaves the primary store and the index set as they were; and no
\* step changes the presence of a record without changing the presence of
\* its index entry the same way.
C15_FailedCommitChangesNothing ==
    [][/\ (ret'.op \in {"Insert", "DeleteByID"} /\ ret'.err = ErrExec)
            => (kv' = kv /\ orders' = orders)
       /\ ret'.op = "Insert"
            => \A now \in Times :
                  Create(ret'.id, now, FALSE) => (ret'.err = ErrExec /\ ret'.code = 500)
       /\ ret'.op = "DeleteByID"
            => (Delete(ret'.id, FALSE) => (ret'.err = ErrExec /\ ret'.code = 500))
       /\ \A id \in Ids :
            /\ (orderIDKey(id) \in DOMAIN kv') = (orderIDKey(id) \in orders')
            /\ (orderIDKey(id) \in DOMAIN kv) = (orderIDKey(id) \in orders)]_vars

\* C15 witness: the DeleteByID of a stored order has failed to commit.
C15_Witness ==
    /\ ret.op = "DeleteByID"
    /\ ret.err = ErrExec
    /\ ret.had
    /\ orderIDKey(ret.id) \in DOMAIN kv

\* C16: an Update of an existing identifier returns no error, whatever other
\* Update runs beside it, and the stored record is then, as a whole, the
\* record this Update wrote.
C16_LastWriteWins ==
    [][ret'.op = "Update" => \A p \in Procs :
          (UpdateWrite(p) /\ orderIDKey(req[p].theOrder.OrderID) \in DOMAIN kv)
             => /\ ret'.err = NoErr
                /\ ret'.code = 200
                /\ kv'[orderIDKey(req[p].theOrder.OrderID)] = Marshal(req[p].theOrder)
                /\ Unmarshal(kv'[orderIDKey(req[p].theOrder.OrderID)]) = req[p].theOrder]_vars

\* C16 witness: an Update has written while another Update of the same order,
\* carrying a different record, is still to write.
C16_Witness ==
    /\ ret.op = "Update"
    /\ ret.had
    /\ \E p \in Procs :
          /\ req[p].pc = "update"
          /\ req[p].theOrder.OrderID = ret.id
          /\ orderIDKey(ret.id) \in DOMAIN kv
          /\ req[p].theOrder # Stored(ret.id)

\* C17: at most one shipped request and at most one completed request per
\* order is answered as accepted: a request answered 200 finds the timestamp
\* it sets absent from the stored record at the moment of its write.
C17_AcceptedOnce ==
    [][ret'.op = "Update" => \A p \in Procs :
          (UpdateWrite(p) /\ ret'.had /\ ret'.code = 200)
             => /\ req[p].status = "shipped"
                     => kv[orderIDKey(req[p].theOrder.OrderID)].shipped_at = <<>>
                /\ req[p].status = "completed"
                     => kv[orderIDKey(req[p].theOrder.OrderID)].completed_at = <<>>]_vars

\* C18: every key the scan of FindAll returned has a record when the
\* multi-get resolves it: FindAll ends with a result or an error, never on an
\* absent value.
C18_ScannedKeysResolve ==
    ret.op = "FindAll" => ret.err # "panic"

\* C19: an Update never creates a record: the write of a status update whose
\* order was deleted in the meantime stores nothing, and the identifier stays
\* absent from the primary store and from the index set.
C19_UpdateNeverCreates ==
    [][ret'.op = "Update" => \A p \in Procs :
          (UpdateWrite(p) /\ orderIDKey(req[p].theOrder.OrderID) \notin DOMAIN kv)
             => /\ DOMAIN kv' = DOMAIN kv
                /\ orderIDKey(req[p].theOrder.OrderID) \notin DOMAIN kv'
                /\ orderIDKey(req[p].theOrder.OrderID) \notin orders'
                /\ kv' = kv]_vars

\* C19 witness: the write of a status update has met its order deleted, and
\* the identifier is in neither the store nor the index.
C19_Witness ==
    /\ ret.op = "Update"
    /\ ~ret.had
    /\ orderIDKey(ret.id) \notin DOMAIN kv
    /\ orderIDKey(ret.id) \notin orders

\* C20: the write of an accepted status update changes, in the stored order,
\* at most the timestamp it sets: identifier, customer, line items, creation
\* timestamp and the other status timestamp stay; no other record and no
\* index entry changes.
C20_UpdateChangesOneField ==
    [][ret'.op = "Update" => \A p \in Procs :
          (UpdateWrite(p) /\ orderIDKey(req[p].theOrder.OrderID) \in DOMAIN kv)
             => LET k == orderIDKey(req[p].theOrder.OrderID)
                IN /\ orders' = orders
                   /\ DOMAIN kv' = DOMAIN kv
                   /\ \A x \in DOMAIN kv \ {k} : kv'[x] = kv[x]
                   /\ req[p].status = "shipped"
                        => kv'[k] = [kv[k] EXCEPT !.shipped_at = kv'[k].shipped_at]
                   /\ req[p].status = "completed"
                        => kv'[k] = [kv[k] EXCEPT !.completed_at = kv'[k].completed_at]]_vars

\* C21: whenever Start has returned, by a failed ping, by an error of the
\* HTTP server or by a cancelled context and the shutdown, the client created
\* in New has been closed exactly once.
C21_ClosedOnceOnReturn ==
    app.main = "returned" => app.closes = 1

====
